---- MODULE Spec2Model ----
(***************************************************************************)
(* A model of tsf, the typesafe printf replacement of this repository      *)
(* (src/tsf.h and its implementation file), as built for _WIN32.           *)
(*                                                                         *)
(* Characters are one-character strings; a C string is the sequence of its *)
(* characters without the terminating null, and index k of the C code is   *)
(* element k + 1 of the sequence.  Integer arguments are kept as their bit *)
(* pattern, a sequence of 16-bit limbs, most significant first, so that    *)
(* 32- and 64-bit values keep their real width.                            *)
(***************************************************************************)
EXTENDS Integers, Sequences, FiniteSets, TLC

(***************************************************************************)
(* Bounds of the model.                                                    *)
(***************************************************************************)
\* the longest format string drawn
MaxFmtLen == 4
\* the largest argument pack drawn
MaxArgs == 2
\* the caller buffers drawn for fmt_buf have 0..MaxCap bytes
MaxCap == 5

(***************************************************************************)
(* Program constants.                                                      *)
(***************************************************************************)
argbuf_arraysize == 16
bufsize == 256
MaxOutputSize == 1048576
LimbBase == 2^16

NUL == "NUL"
i64Prefix == <<"I", "6", "4">>
wcharPrefix == <<>>
wcharType == "S"

(***************************************************************************)
(* Sequence helpers.                                                       *)
(***************************************************************************)
\* fmt[k] of the C code: the terminating null is readable at index Len
At(s, k) == IF k >= 0 /\ k < Len(s) THEN s[k + 1] ELSE NUL

Reverse(s) == [k \in 1..Len(s) |-> s[Len(s) + 1 - k]]

RECURSIVE Repeat(_, _)
Repeat(c, n) == IF n <= 0 THEN <<>> ELSE <<c>> \o Repeat(c, n - 1)

Max(a, b) == IF a >= b THEN a ELSE b

(***************************************************************************)
(* Fixed-width integers as limbs (most significant first).                 *)
(***************************************************************************)
IsZero(limbs) == \A k \in 1..Len(limbs) : limbs[k] = 0

\* TInt is signed and its sign bit is set
IsNegative(limbs) == limbs[1] >= LimbBase \div 2

\* limbs + 1, modulo the width
RECURSIVE Increment(_)
Increment(limbs) ==
    IF limbs = <<>> THEN <<>>
    ELSE LET n == Len(limbs)
             last == limbs[n]
         IN IF last + 1 < LimbBase
            THEN SubSeq(limbs, 1, n - 1) \o <<last + 1>>
            ELSE Increment(SubSeq(limbs, 1, n - 1)) \o <<0>>

\* two's complement negation, modulo the width
Negate(limbs) == Increment([k \in 1..Len(limbs) |-> LimbBase - 1 - limbs[k]])

\* the magnitude of a signed value (the most negative value keeps its pattern)
Magnitude(limbs) == IF IsNegative(limbs) THEN Negate(limbs) ELSE limbs

\* long division of the unsigned value by a small divisor:
\* <<quotient limbs, remainder>>
RECURSIVE DivLimbs(_, _, _)
DivLimbs(limbs, d, r) ==
    IF limbs = <<>> THEN <<<<>>, r>>
    ELSE LET cur == r * LimbBase + Head(limbs)
             rest == DivLimbs(Tail(limbs), d, cur % d)
         IN <<<<cur \div d>> \o rest[1], rest[2]>>

\* limbs * m + a, modulo the width; <<limbs, carry out>>
RECURSIVE MulAddLimbs(_, _, _)
MulAddLimbs(limbs, m, a) ==
    IF limbs = <<>> THEN <<<<>>, a>>
    ELSE LET n == Len(limbs)
             cur == limbs[n] * m + a
             rest == MulAddLimbs(SubSeq(limbs, 1, n - 1), m, cur \div LimbBase)
         IN <<rest[1] \o <<cur % LimbBase>>, rest[2]>>

(***************************************************************************)
(* Arguments (class fmtarg).  One payload field is meaningful per tag:     *)
(* Bits for the integer and pointer tags, Str for the string tags and Dbl  *)
(* (the name of a sampled value) for TDbl.                                 *)
(***************************************************************************)
Types == {"TNull", "TPtr", "TCStr", "TWStr", "TI32", "TU32", "TI64", "TU64", "TDbl"}

fmtarg(type, bits, str, dbl) == [Type |-> type, Bits |-> bits, Str |-> str, Dbl |-> dbl]

ArgNull == fmtarg("TNull", <<>>, <<>>, "")
ArgPtr(bits) == fmtarg("TPtr", bits, <<>>, "")
ArgCStr(s) == fmtarg("TCStr", <<>>, s, "")
ArgWStr(s) == fmtarg("TWStr", <<>>, s, "")
ArgI32(bits) == fmtarg("TI32", bits, <<>>, "")
ArgU32(bits) == fmtarg("TU32", bits, <<>>, "")
ArgI64(bits) == fmtarg("TI64", bits, <<>>, "")
ArgU64(bits) == fmtarg("TU64", bits, <<>>, "")
ArgDbl(name) == fmtarg("TDbl", <<>>, <<>>, name)

(***************************************************************************)
(* The result of one write into a provisional chunk: the value returned    *)
(* and, when it reports success, the bytes written.                        *)
(***************************************************************************)
Wrote(text) == [written |-> Len(text), text |-> text]
Failed == [written |-> -1, text |-> <<>>]

(***************************************************************************)
(* format_integer: least significant digit first into buf, the sign, then  *)
(* reversed.                                                               *)
(***************************************************************************)
DigitChars(upcase) ==
    <<"0", "1", "2", "3", "4", "5", "6", "7", "8", "9">> \o
    (IF upcase
     THEN <<"A", "B", "C", "D", "E", "F", "G", "H", "I", "J", "K", "L", "M",
            "N", "O", "P", "Q", "R", "S", "T", "U", "V", "W", "X", "Y", "Z">>
     ELSE <<"a", "b", "c", "d", "e", "f", "g", "h", "i", "j", "k", "l", "m",
            "n", "o", "p", "q", "r", "s", "t", "u", "v", "w", "x", "y", "z">>)

\* the mirrored digit table; lut[35] of the C code is "0"
lut(upcase) == Reverse(Tail(DigitChars(upcase))) \o DigitChars(upcase)

\* tmp_value - value * base after value /= base: C division truncates
\* towards zero, so the remainder has the sign of the dividend
Remainder(neg, r) == IF neg THEN 0 - r ELSE r

\* a table index one place off, to show what the digits depend on
LutIndex_Off(rem) == 36 + rem

LutIndex(rem) == 35 + rem

\* tmp_value < 0, for the last tmp_value of the loop
SignTest(signed, neg, tmp_mag) == signed /\ neg /\ ~IsZero(tmp_mag)

\* the do-while loop; mag is |value|, buf the digits so far
RECURSIVE format_integer_loop(_, _, _, _, _, _)
format_integer_loop(signed, neg, mag, tbase, upcase, buf) ==
    LET dm == DivLimbs(mag, tbase, 0)
        buf1 == Append(buf, At(lut(upcase), LutIndex(Remainder(neg, dm[2]))))
    IN IF ~IsZero(dm[1])
       THEN format_integer_loop(signed, neg, dm[1], tbase, upcase, buf1)
       ELSE IF SignTest(signed, neg, mag) THEN Append(buf1, "-") ELSE buf1

\* format_integer<TInt, tbase, upcase>(destination, value): the bytes
\* written; the value returned is their number
format_integer(signed, tbase, upcase, value) ==
    LET neg == signed /\ IsNegative(value)
        mag == IF neg THEN Negate(value) ELSE value
    IN Reverse(format_integer_loop(signed, neg, mag, tbase, upcase, <<>>))

(***************************************************************************)
(* The platform's vsnprintf, for the conversions the engine hands to it.   *)
(* A conversion spec is "%", an optional width, an optional I64 and the    *)
(* letter.  SnText is the full text of the conversion, or Invalid.         *)
(***************************************************************************)
Invalid == <<"invalid">>

DecimalDigits == {"0", "1", "2", "3", "4", "5", "6", "7", "8", "9"}

DigitValue(c) == CHOOSE d \in 0..9 : DigitChars(FALSE)[d + 1] = c

\* the text of an unsigned value, most significant digit first
RECURSIVE RefDigits(_, _, _)
RefDigits(mag, base, upcase) ==
    LET dm == DivLimbs(mag, base, 0)
        d == DigitChars(upcase)[dm[2] + 1]
    IN IF IsZero(dm[1]) THEN <<d>> ELSE Append(RefDigits(dm[1], base, upcase), d)

RefSigned(value) ==
    IF IsNegative(value) THEN <<"-">> \o RefDigits(Negate(value), 10, FALSE)
    ELSE RefDigits(value, 10, FALSE)

RECURSIVE ParseWidth(_, _)
ParseWidth(s, acc) ==
    IF s = <<>> THEN acc ELSE ParseWidth(Tail(s), acc * 10 + DigitValue(Head(s)))

Pad(text, width) == Repeat(" ", width - Len(text)) \o text

\* a conversion's text under a field width
SnPadded(text, width) == IF text = Invalid THEN Invalid ELSE Pad(text, width)

\* the width digits of a spec: the longest run of digits after the "%"
RECURSIVE WidthLen(_, _)
WidthLen(format_str, k) ==
    IF At(format_str, k) \in DecimalDigits THEN WidthLen(format_str, k + 1) ELSE k - 1

\* the text of a sampled double under a conversion letter
DblText(letter, name) ==
    CASE name = "25.5" /\ letter \in {"g", "G"} -> <<"2", "5", ".", "5">>
      [] name = "25.5" /\ letter = "f" -> <<"2", "5", ".", "5", "0", "0", "0", "0", "0">>
      [] name = "25.5" /\ letter = "e" -> <<"2", ".", "5", "5", "0", "0", "0", "0", "e", "+", "0", "1">>
      [] name = "25.5" /\ letter = "E" -> <<"2", ".", "5", "5", "0", "0", "0", "0", "E", "+", "0", "1">>
      [] name = "0" /\ letter \in {"g", "G"} -> <<"0">>
      [] name = "0" /\ letter = "f" -> <<"0", ".", "0", "0", "0", "0", "0", "0">>
      [] name = "0" /\ letter = "e" -> <<"0", ".", "0", "0", "0", "0", "0", "0", "e", "+", "0", "0">>
      [] name = "0" /\ letter = "E" -> <<"0", ".", "0", "0", "0", "0", "0", "0", "E", "+", "0", "0">>
      [] OTHER -> Invalid

\* the character a %c conversion writes for an int
CharText(value) ==
    LET low == value[Len(value)] % 256
    IN IF low = 98 THEN <<"b">> ELSE IF low = 0 THEN <<NUL>> ELSE <<"chr">>

IntTypes == {"TI32", "TU32", "TI64", "TU64"}

\* the argument is read with the size the spec names
SizeMatches(is64, arg) == Len(arg.Bits) = (IF is64 THEN 4 ELSE 2)

SnConvert(letter, is64, arg) ==
    CASE arg.Type \in IntTypes /\ SizeMatches(is64, arg) /\ letter \in {"d", "i"} ->
           RefSigned(arg.Bits)
      [] arg.Type \in IntTypes /\ SizeMatches(is64, arg) /\ letter = "u" ->
           RefDigits(arg.Bits, 10, FALSE)
      [] arg.Type \in IntTypes /\ SizeMatches(is64, arg) /\ letter = "o" ->
           RefDigits(arg.Bits, 8, FALSE)
      [] arg.Type \in IntTypes /\ SizeMatches(is64, arg) /\ letter = "x" ->
           RefDigits(arg.Bits, 16, FALSE)
      [] arg.Type \in IntTypes /\ SizeMatches(is64, arg) /\ letter = "X" ->
           RefDigits(arg.Bits, 16, TRUE)
      [] arg.Type \in {"TI32", "TU32"} /\ letter = "c" /\ ~is64 -> CharText(arg.Bits)
      [] arg.Type = "TPtr" /\ letter = "p" /\ ~is64 ->
           LET digits == RefDigits(arg.Bits, 16, TRUE)
           IN Repeat("0", 16 - Len(digits)) \o digits
      [] arg.Type = "TCStr" /\ letter = "s" /\ ~is64 -> arg.Str
      [] arg.Type = "TWStr" /\ letter = wcharType /\ ~is64 ->
           IF \E k \in 1..Len(arg.Str) : arg.Str[k] = "mu" THEN Invalid ELSE arg.Str
      [] arg.Type = "TDbl" /\ ~is64 -> DblText(letter, arg.Dbl)
      [] OTHER -> Invalid

\* the spec has its letter at lpos and nothing after it
SnLetterAt(format_str, lpos, is64, width, arg) ==
    IF At(format_str, 0) # "%" \/ Len(format_str) # lpos + 1
    THEN Invalid
    ELSE SnPadded(SnConvert(At(format_str, lpos), is64, arg), width)

\* the spec has wl width digits
SnWidth(format_str, wl, arg) ==
    IF /\ At(format_str, wl + 1) = i64Prefix[1]
       /\ At(format_str, wl + 2) = i64Prefix[2]
       /\ At(format_str, wl + 3) = i64Prefix[3]
    THEN SnLetterAt(format_str, wl + 4, TRUE, ParseWidth(SubSeq(format_str, 2, wl + 1), 0), arg)
    ELSE SnLetterAt(format_str, wl + 1, FALSE, ParseWidth(SubSeq(format_str, 2, wl + 1), 0), arg)

SnText(format_str, arg) == SnWidth(format_str, WidthLen(format_str, 1), arg)

\* vsnprintf's value for the full text of the conversion
SnReturn(text) ==
    IF text = Invalid THEN [r |-> -1, text |-> <<>>] ELSE [r |-> Len(text), text |-> text]

\* vsnprintf(destination, count, format_str, va): the number of characters
\* the full conversion has, or negative on an error
vsnprintf(count, format_str, arg) == SnReturn(SnText(format_str, arg))

fmt_translate_snprintf_return_value(r, count) ==
    IF r < 0 \/ r >= count THEN -1 ELSE r

\* fmt_snprintf, given what vsnprintf returned
Translated(v, count) ==
    IF fmt_translate_snprintf_return_value(v.r, count) < 0 THEN Failed ELSE Wrote(v.text)

fmt_snprintf(count, format_str, arg) ==
    Translated(vsnprintf(count, format_str, arg), count)

(***************************************************************************)
(* The engine's own conversions.                                           *)
(***************************************************************************)
format_string(count, format_str, arg) ==
    IF At(format_str, 0) = "%" /\ At(format_str, 1) = "s"
    THEN IF Len(arg.Str) < count THEN Wrote(arg.Str) ELSE Failed
    ELSE fmt_snprintf(count, format_str, arg)

\* the least chunk sizes for which the fast integer paths are taken
MinCountDec32 == 11
MinCountHex32 == 8
MinCountDec64 == 20
MinCountHex64 == 16

\* v is converted to int32_t on the call
format_int32(count, format_str, arg) ==
    LET c == At(format_str, 1)
    IN CASE c \in {"d", "i"} /\ count >= MinCountDec32 ->
              Wrote(format_integer(TRUE, 10, FALSE, arg.Bits))
         [] c = "u" /\ count >= MinCountDec32 ->
              Wrote(format_integer(FALSE, 10, FALSE, arg.Bits))
         [] c = "x" /\ count >= MinCountHex32 ->
              Wrote(format_integer(FALSE, 16, FALSE, arg.Bits))
         [] c = "X" /\ count >= MinCountHex32 ->
              Wrote(format_integer(FALSE, 16, TRUE, arg.Bits))
         [] OTHER -> fmt_snprintf(count, format_str, arg)

format_int64(count, format_str, arg) ==
    LET isPlain == /\ At(format_str, 1) = i64Prefix[1]
                   /\ At(format_str, 2) = i64Prefix[2]
                   /\ At(format_str, 3) = i64Prefix[3]
        c == At(format_str, 4)
    IN CASE isPlain /\ c \in {"d", "i"} /\ count >= MinCountDec64 ->
              Wrote(format_integer(TRUE, 10, FALSE, arg.Bits))
         [] isPlain /\ c = "u" /\ count >= MinCountDec64 ->
              Wrote(format_integer(FALSE, 10, FALSE, arg.Bits))
         [] isPlain /\ c = "x" /\ count >= MinCountHex64 ->
              Wrote(format_integer(FALSE, 16, FALSE, arg.Bits))
         [] isPlain /\ c = "X" /\ count >= MinCountHex64 ->
              Wrote(format_integer(FALSE, 16, TRUE, arg.Bits))
         [] OTHER -> fmt_snprintf(count, format_str, arg)

\* a null width
nullptr == <<"nullptr">>

\* fmt_settype: the conversion spec, read as a C string, that argbuf holds
\* afterwards; argbuf holds pos characters before
fmt_settype(argbuf, pos, width, type) ==
    IF width # nullptr
    THEN LET p == IF At(argbuf, pos - 1) \in {"l", "h", "w"} THEN pos - 1 ELSE pos
         IN SubSeq(argbuf, 1, p) \o width \o <<type>>
    ELSE SubSeq(argbuf, 1, pos) \o <<type>>

\* a test that misses the octal letter, to show what the letter of the
\* conversion depends on
tokenint_NoOctal(fmt_type) == fmt_type \in {"d", "i", "u", "x", "X"}

tokenint(fmt_type) == fmt_type \in {"d", "i", "o", "u", "x", "X"}

tokenreal(fmt_type) == fmt_type \in {"e", "E", "f", "g", "G", "a", "A"}

\* a choice of letter that reads an unsigned 32-bit argument as signed, to
\* show what the generic directive depends on
TypeLetter_Signed(fmt_type, type) ==
    CASE type = "TPtr" -> "p"
      [] type = "TCStr" -> "s"
      [] type = "TWStr" -> wcharType
      [] type = "TI32" ->
           IF fmt_type = "c" THEN "c" ELSE IF tokenint(fmt_type) THEN fmt_type ELSE "d"
      [] type = "TU32" -> IF tokenint(fmt_type) THEN fmt_type ELSE "d"
      [] type = "TI64" -> IF tokenint(fmt_type) THEN fmt_type ELSE "d"
      [] type = "TU64" -> IF tokenint(fmt_type) THEN fmt_type ELSE "u"
      [] type = "TDbl" -> IF tokenreal(fmt_type) THEN fmt_type ELSE "g"
      [] OTHER -> fmt_type

\* the letter the conversion is made with, by the argument's tag
TypeLetter(fmt_type, type) ==
    CASE type = "TPtr" -> "p"
      [] type = "TCStr" -> "s"
      [] type = "TWStr" -> wcharType
      [] type = "TI32" ->
           IF fmt_type = "c" THEN "c" ELSE IF tokenint(fmt_type) THEN fmt_type ELSE "d"
      [] type = "TU32" -> IF tokenint(fmt_type) THEN fmt_type ELSE "u"
      [] type = "TI64" -> IF tokenint(fmt_type) THEN fmt_type ELSE "d"
      [] type = "TU64" -> IF tokenint(fmt_type) THEN fmt_type ELSE "u"
      [] type = "TDbl" -> IF tokenreal(fmt_type) THEN fmt_type ELSE "g"
      [] OTHER -> fmt_type

\* the width fmt_settype is given, by the argument's tag
TypeWidth(type) ==
    CASE type \in {"TCStr", "TI32", "TU32"} -> <<>>
      [] type = "TWStr" -> wcharPrefix
      [] type \in {"TI64", "TU64"} -> i64Prefix
      [] OTHER -> nullptr

\* the conversion spec built in argbuf for the argument
ConversionSpec(fmt_type, argbuf, argbufsize, arg) ==
    fmt_settype(argbuf, argbufsize, TypeWidth(arg.Type), TypeLetter(fmt_type, arg.Type))

\* the conversion made with the spec, by the argument's tag
Dispatch(spec, outputSize, arg) ==
    CASE arg.Type = "TNull" -> Wrote(<<>>)
      [] arg.Type = "TCStr" -> format_string(outputSize, spec, arg)
      [] arg.Type \in {"TI32", "TU32"} -> format_int32(outputSize, spec, arg)
      [] arg.Type \in {"TI64", "TU64"} -> format_int64(outputSize, spec, arg)
      [] OTHER -> fmt_snprintf(outputSize, spec, arg)

fmt_output_with_snprintf(fmt_type, argbuf, argbufsize, outputSize, arg) ==
    Dispatch(ConversionSpec(fmt_type, argbuf, argbufsize, arg), outputSize, arg)

(***************************************************************************)
(* The state of one formatting call.                                       *)
(***************************************************************************)
VARIABLES
    entry,          \* the public entry point called: "fmt" or "fmt_buf"
    fmt,            \* the format string
    args,           \* the argument pack; nargs is its length
    context,        \* which of Escape_q and Escape_Q are set
    staticbuf_size, \* the capacity of the caller's buffer
    pc,             \* the place of the call in fmt_core
    i,              \* the scan index
    tokenstart,     \* the index of the "%" of the open directive, or -1
    iarg,           \* the index of the next argument
    j,              \* the index of the passthrough copy
    arg,            \* the index of the argument being rendered
    argbuf,         \* the characters copied to the scratch spec
    outputSize,     \* the size of the provisional chunk
    output,         \* the StackBuffer
    heap,           \* the blocks allocated with new[] and released with delete[]
    res,            \* the StrLenPair returned by fmt_core
    stored,         \* the bytes the call left in the block at res.Str
    oob,            \* the number of bytes written past the end of a block
    result,         \* the bytes the caller reads at Str[0 .. Len - 1]
    term,           \* the byte the caller reads at Str[Len]
    used,           \* the argument index each substituted directive rendered
    escape_calls,   \* the escape callbacks called so far, by letter
    pin,            \* the input of a conversion checked on its own
    pout,           \* its outputs
    D3DDevice,          \* WinDesktopDup: the device handle, or null
    D3DDeviceContext,   \* the device context handle, or null
    DeskDupl,           \* the output duplication handle, or null
    HaveFrameLock,      \* whether CaptureNext believes it holds a frame
    Latest,             \* the size of the bitmap of the latest capture
    references,         \* the references obtained and the Release calls made
    frames,             \* the duplication objects that hold an acquired frame
    called              \* the calls made on the object, and what the last one did

vars == <<entry, fmt, args, context, staticbuf_size, pc, i, tokenstart, iarg, j,
          arg, argbuf, outputSize, output, heap, res, stored, oob, result, term,
          used, escape_calls, pin, pout, D3DDevice, D3DDeviceContext, DeskDupl,
          HaveFrameLock, Latest, references, frames, called>>

capture == <<D3DDevice, D3DDeviceContext, DeskDupl, HaveFrameLock, Latest, references,
             frames, called>>

inputs == <<entry, fmt, args, context, staticbuf_size, pin, pout, capture>>

locals == <<i, tokenstart, iarg, j, arg, argbuf, outputSize>>

returned == <<res, stored, oob, result, term>>

\* a reference to the object of a kind obtained by the given call
Handle(kind, call) == <<kind, call>>

\* WinDesktopDup.h: the fields of a WinDesktopDup after construction, with no
\* reference obtained, no frame held and no call made
NoCapture ==
    /\ D3DDevice = nullptr
    /\ D3DDeviceContext = nullptr
    /\ DeskDupl = nullptr
    /\ HaveFrameLock = FALSE
    /\ Latest = [Width |-> 0, Height |-> 0]
    /\ references = [obtained |-> <<>>, released |-> <<>>]
    /\ frames = {}
    /\ called = [count |-> 0, last |-> "", prev |-> "", ret |-> "", service |-> <<>>,
                 textures |-> <<>>, crashed |-> FALSE]

nargs == Len(args)

\* the pointer to the caller's buffer; heap blocks are numbered from 1
staticbuf == 0

\* a byte whose value the program does not determine
Unknown == "?"
\* the bytes of a provisional chunk that has not been written
Uninit == "uninit"
\* the bytes of a provisional chunk kept after the last write failed
Junk == "junk"

(***************************************************************************)
(* class StackBuffer.  Data is the content of Buffer[0 .. Pos - 1]: one    *)
(* element per byte, or one element for a whole provisional chunk.         *)
(***************************************************************************)
StackBuffer(buf, size) ==
    [Buffer |-> buf, Data |-> <<>>, Pos |-> 0, Capacity |-> size, OwnBuffer |-> FALSE]

\* a growth test that is one byte late, to show what the bound on Pos
\* depends on
NeedsGrowth_Late(o, bytes) == o.Pos + bytes > o.Capacity + 1

NeedsGrowth(o, bytes) == o.Pos + bytes > o.Capacity

\* a new capacity that only doubles, to show what the growth policy
\* depends on
NewCapacity_Double(o, bytes) == o.Capacity * 2

NewCapacity(o, bytes) == Max(o.Capacity * 2, o.Pos + bytes)

\* the block a new[] returns
NewBlock == Len(heap.blocks) + 1

\* a growth that does not copy the bytes appended so far into the new
\* block, to show what the literal copy depends on
Reserve_NoCopy(o, bytes) ==
    IF NeedsGrowth(o, bytes)
    THEN [o EXCEPT !.Capacity = NewCapacity(o, bytes),
                   !.OwnBuffer = TRUE,
                   !.Buffer = NewBlock,
                   !.Data = [k \in 1..Len(o.Data) |-> Unknown]]
    ELSE o

Reserve(o, bytes) ==
    IF NeedsGrowth(o, bytes)
    THEN [o EXCEPT !.Capacity = NewCapacity(o, bytes),
                   !.OwnBuffer = TRUE,
                   !.Buffer = NewBlock]
    ELSE o

\* a growth that never releases the old block, to show what the bound on
\* live blocks depends on
ReserveHeap_Leak(o, bytes) ==
    IF NeedsGrowth(o, bytes)
    THEN [blocks |-> Append(heap.blocks, NewCapacity(o, bytes)),
          live |-> heap.live \cup {NewBlock},
          deleted |-> heap.deleted]
    ELSE heap

\* the new[] and delete[] of Reserve
ReserveHeap(o, bytes) ==
    IF NeedsGrowth(o, bytes)
    THEN [blocks |-> Append(heap.blocks, NewCapacity(o, bytes)),
          live |-> (heap.live \cup {NewBlock}) \ (IF o.OwnBuffer THEN {o.Buffer} ELSE {}),
          deleted |-> IF o.OwnBuffer THEN Append(heap.deleted, o.Buffer) ELSE heap.deleted]
    ELSE heap

\* a cursor that is not moved, to show what the retraction depends on
MoveCurrentPos_Stay(o, bytes) == o

\* bytes may be negative: Pos is unsigned and the sum wraps to the difference
MoveCurrentPos(o, bytes) == [o EXCEPT !.Pos = o.Pos + bytes]

\* the chunk returned starts at the old Pos; content is what it holds
AddUninitialized(o, bytes, content) ==
    LET r == Reserve(o, bytes)
    IN [r EXCEPT !.Pos = r.Pos + bytes, !.Data = r.Data \o content]

Add(o, c) == AddUninitialized(o, 1, <<c>>)

RemainingSpace(o) == o.Capacity - o.Pos

\* the capacity of the block a pointer points to
CapacityOf(ptr) == IF ptr = staticbuf THEN staticbuf_size ELSE heap.blocks[ptr]

(***************************************************************************)
(* The inputs drawn.                                                       *)
(***************************************************************************)
\* a literal, the directive introducer, conversion letters and a width digit
FmtChars == {"b", "%", "d", "q", "Q", "5"}

Strings(chars, n) == UNION {[1..k -> chars] : k \in 0..n}

\* -12 as a 32-bit int, and a wide string the platform cannot convert
ArgSamples == {ArgI32(<<65535, 65524>>), ArgWStr(<<"mu">>)}

\* a context names, for each escape callback, whether it is set
Contexts == [Escape_q : BOOLEAN, Escape_Q : BOOLEAN]

EmptyContext == [Escape_q |-> FALSE, Escape_Q |-> FALSE]

(***************************************************************************)
(* A sample escape callback, as its contract in struct context asks: the   *)
(* argument's plain text between quotes and no null terminator, or -1      *)
(* (size_t) when outBufSize is too small.                                  *)
(***************************************************************************)
PlainText(a) ==
    CASE a.Type \in {"TI32", "TI64"} -> RefSigned(a.Bits)
      [] a.Type \in {"TU32", "TU64", "TPtr"} -> RefDigits(a.Bits, 10, FALSE)
      [] a.Type \in {"TCStr", "TWStr"} -> a.Str
      [] OTHER -> <<>>

WriteSpecialFunc(outBufSize, a) ==
    LET text == <<"'">> \o PlainText(a) \o <<"'">>
    IN IF Len(text) > outBufSize THEN Failed ELSE Wrote(text)

(***************************************************************************)
(* fmt_core.                                                               *)
(***************************************************************************)
ConversionLetters ==
    {"a", "A", "c", "C", "d", "i", "e", "E", "f", "g", "G", "H", "o", "s", "S",
     "u", "x", "X", "p", "n", "v", "q", "Q"}

\* a test that is one argument late, to show what the passthrough of a
\* directive without an argument depends on
no_args_remaining_Late(ia, n) == ia > n

no_args_remaining(ia, n) == ia >= n

spec_too_long(ii, ts) == ii - ts >= argbuf_arraysize - 1

\* a test that lets n through, to show what the rejection of n depends on
disallowed_EscapesOnly(c, cx) ==
    \/ c = "q" /\ ~cx.Escape_q
    \/ c = "Q" /\ ~cx.Escape_Q

\* a test that lets q and Q through whatever the context, to show what the
\* literal rendering depends on
disallowed_OnlyN(c, cx) == c = "n"

disallowed(c, cx) ==
    \/ c = "n"
    \/ c = "q" /\ ~cx.Escape_q
    \/ c = "Q" /\ ~cx.Escape_Q

\* the directive ending at i is copied to the output, not substituted
Passthrough ==
    \/ no_args_remaining(iarg, nargs)
    \/ spec_too_long(i, tokenstart)
    \/ disallowed(At(fmt, i), context)

initial_sprintf_guessed_size(size) == size \div 4

\* the test of the fast path: the copy into staticbuf is taken
FitsStatic(len, size) == size # 0 /\ len <= size + 1

\* the index at which the literal copy loop stops
RECURSIVE LiteralEnd(_, _, _)
LiteralEnd(f, k, stopAt) ==
    IF k < stopAt /\ At(f, k) # "%" /\ At(f, k) # NUL
    THEN LiteralEnd(f, k + 1, stopAt)
    ELSE k

\* argbuf after the copy of fmt[tokenstart .. i - 1] without "*"
RECURSIVE CopySpec(_, _, _)
CopySpec(f, from, to) ==
    IF from >= to THEN <<>>
    ELSE (IF At(f, from) = "*" THEN <<>> ELSE <<At(f, from)>>) \o CopySpec(f, from + 1, to)

\* the write of one attempt into a chunk of outputSize bytes
AttemptResult ==
    IF At(fmt, i) \in {"q", "Q"}
    THEN WriteSpecialFunc(outputSize, args[arg + 1])
    ELSE fmt_output_with_snprintf(At(fmt, i), argbuf, Len(argbuf), outputSize, args[arg + 1])

AttemptOk(w) == w.written >= 0 /\ w.written < outputSize

\* the content of the last provisional chunk is replaced
SetChunk(o, content) == [o EXCEPT !.Data = SubSeq(o.Data, 1, Len(o.Data) - 1) \o content]

NoHeap == [blocks |-> <<>>, live |-> {}, deleted |-> <<>>]

\* the state at the call of an entry point
Call(e, f, a, cx, size) ==
    /\ entry = e
    /\ fmt = f
    /\ args = a
    /\ context = cx
    /\ staticbuf_size = size
    /\ pc = "start"
    /\ i = 0
    /\ tokenstart = -1
    /\ iarg = 0
    /\ j = 0
    /\ arg = 0
    /\ argbuf = <<>>
    /\ outputSize = 0
    /\ output = StackBuffer(staticbuf, size)
    /\ heap = NoHeap
    /\ res = [Str |-> staticbuf, Len |-> 0]
    /\ stored = <<>>
    /\ oob = 0
    /\ result = <<>>
    /\ term = NUL
    /\ used = <<>>
    /\ escape_calls = {}

\* the calls drawn: fmt uses an empty context and the static buffer of the
\* std::string overload; fmt_buf is given both by its caller
Calls(maxlen, maxargs) ==
    /\ \E e \in {"fmt", "fmt_buf"} :
       \E f \in Strings(FmtChars, maxlen) :
       \E a \in Strings(ArgSamples, maxargs) :
       \E cx \in (IF e = "fmt" THEN {EmptyContext} ELSE Contexts) :
       \E size \in (IF e = "fmt" THEN {bufsize} ELSE 0..MaxCap) :
          Call(e, f, a, cx, size)
    /\ pin = <<>>
    /\ pout = <<>>
    /\ NoCapture

Init == Calls(MaxFmtLen, MaxArgs)

\* the calls with the shorter format strings and packs
ShortInit == Calls(MaxFmtLen - 2, MaxArgs - 1)

\* the zero-argument fast path, copying into the caller's buffer
ZeroArgsStatic ==
    /\ pc = "start"
    /\ nargs = 0
    /\ FitsStatic(Len(fmt), staticbuf_size)
    /\ res' = [Str |-> staticbuf, Len |-> Len(fmt)]
    /\ stored' = fmt \o <<NUL>>
    /\ oob' = Max(0, Len(fmt) + 1 - staticbuf_size)
    /\ pc' = "ret"
    /\ UNCHANGED <<inputs, locals, output, heap, result, term, used, escape_calls>>

\* the zero-argument fast path, copying into a new block
ZeroArgsAlloc ==
    /\ pc = "start"
    /\ nargs = 0
    /\ ~FitsStatic(Len(fmt), staticbuf_size)
    /\ heap' = [heap EXCEPT !.blocks = Append(heap.blocks, Len(fmt) + 1),
                            !.live = heap.live \cup {NewBlock}]
    /\ res' = [Str |-> NewBlock, Len |-> Len(fmt)]
    /\ stored' = fmt \o <<NUL>>
    /\ oob' = 0
    /\ pc' = "ret"
    /\ UNCHANGED <<inputs, locals, output, result, term, used, escape_calls>>

\* the locals of the scanning path
Begin ==
    /\ pc = "start"
    /\ nargs # 0
    /\ tokenstart' = -1
    /\ iarg' = 0
    /\ i' = 0
    /\ output' = StackBuffer(staticbuf, staticbuf_size)
    /\ pc' = "loop"
    /\ UNCHANGED <<inputs, j, arg, argbuf, outputSize, heap, returned, used, escape_calls>>

\* one pass of the loop outside a directive: the unchecked copy, then the
\* "%", the end of the string, or the growth by one byte
ScanLiteral ==
    /\ pc = "loop"
    /\ At(fmt, i) # NUL
    /\ tokenstart = -1
    /\ LET stopAt == i + RemainingSpace(output)
           m == LiteralEnd(fmt, i, stopAt)
           copied == [output EXCEPT !.Data = output.Data \o SubSeq(fmt, i + 1, m),
                                    !.Pos = output.Pos + (m - i)]
       IN IF At(fmt, m) = "%"
          THEN /\ tokenstart' = m
               /\ i' = m + 1
               /\ output' = copied
               /\ heap' = heap
          ELSE IF At(fmt, m) = NUL
          THEN /\ tokenstart' = tokenstart
               /\ i' = m
               /\ output' = copied
               /\ heap' = heap
          ELSE /\ tokenstart' = tokenstart
               /\ i' = m
               /\ output' = Reserve(copied, 1)
               /\ heap' = ReserveHeap(copied, 1)
    /\ UNCHANGED <<inputs, pc, iarg, j, arg, argbuf, outputSize, returned, used, escape_calls>>

\* inside a directive, a character that ends nothing
DirectiveChar ==
    /\ pc = "loop"
    /\ At(fmt, i) # NUL
    /\ tokenstart # -1
    /\ At(fmt, i) \notin ConversionLetters \cup {"%"}
    /\ i' = i + 1
    /\ UNCHANGED <<inputs, pc, tokenstart, iarg, j, arg, argbuf, outputSize, output, heap,
                   returned, used, escape_calls>>

\* inside a directive, "%"
Percent ==
    /\ pc = "loop"
    /\ tokenstart # -1
    /\ At(fmt, i) = "%"
    /\ output' = Add(output, "%")
    /\ heap' = ReserveHeap(output, 1)
    /\ tokenstart' = -1
    /\ i' = i + 1
    /\ UNCHANGED <<inputs, pc, iarg, j, arg, argbuf, outputSize, returned, used, escape_calls>>

\* a conversion letter ends a directive that is not substituted
PassthroughBegin ==
    /\ pc = "loop"
    /\ tokenstart # -1
    /\ At(fmt, i) \in ConversionLetters
    /\ Passthrough
    /\ j' = tokenstart
    /\ pc' = "copy"
    /\ UNCHANGED <<inputs, i, tokenstart, iarg, arg, argbuf, outputSize, output, heap,
                   returned, used, escape_calls>>

\* output.Add(fmt[j]) of the passthrough copy; after the last one the
\* directive is closed
PassthroughAdd ==
    /\ pc = "copy"
    /\ output' = Add(output, At(fmt, j))
    /\ heap' = ReserveHeap(output, 1)
    /\ IF j < i
       THEN /\ j' = j + 1
            /\ UNCHANGED <<pc, tokenstart, i>>
       ELSE /\ j' = j
            /\ tokenstart' = -1
            /\ i' = i + 1
            /\ pc' = "loop"
    /\ UNCHANGED <<inputs, iarg, arg, argbuf, outputSize, returned, used, escape_calls>>

\* a substitution that does not advance to the next argument, to show what
\* the order of the arguments depends on
SubstituteBegin_SameArg ==
    /\ pc = "loop"
    /\ tokenstart # -1
    /\ At(fmt, i) \in ConversionLetters
    /\ ~Passthrough
    /\ argbuf' = CopySpec(fmt, tokenstart, i)
    /\ arg' = iarg
    /\ iarg' = iarg
    /\ used' = Append(used, iarg)
    /\ outputSize' = initial_sprintf_guessed_size(staticbuf_size)
    /\ pc' = "attempt"
    /\ UNCHANGED <<inputs, i, tokenstart, j, output, heap, returned, escape_calls>>

\* a conversion letter ends a directive that is substituted: the spec is
\* copied to argbuf and the next argument taken
SubstituteBegin ==
    /\ pc = "loop"
    /\ tokenstart # -1
    /\ At(fmt, i) \in ConversionLetters
    /\ ~Passthrough
    /\ argbuf' = CopySpec(fmt, tokenstart, i)
    /\ arg' = iarg
    /\ iarg' = iarg + 1
    /\ used' = Append(used, iarg)
    /\ outputSize' = initial_sprintf_guessed_size(staticbuf_size)
    /\ pc' = "attempt"
    /\ UNCHANGED <<inputs, i, tokenstart, j, output, heap, returned, escape_calls>>

\* output.AddUninitialized(outputSize)
AttemptReserve ==
    /\ pc = "attempt"
    /\ output' = AddUninitialized(output, outputSize, <<Uninit>>)
    /\ heap' = ReserveHeap(output, outputSize)
    /\ pc' = "write"
    /\ UNCHANGED <<inputs, locals, returned, used, escape_calls>>

\* the callbacks called once the attempt has written
CountEscape == IF At(fmt, i) \in {"q", "Q"} THEN escape_calls \cup {At(fmt, i)} ELSE escape_calls

\* the write fits: the cursor is moved back to the end of what was written
Succeeds(w) ==
    /\ AttemptOk(w)
    /\ output' = SetChunk(MoveCurrentPos(output, w.written - outputSize), w.text)

AttemptSuccess ==
    /\ pc = "write"
    /\ Succeeds(AttemptResult)
    /\ escape_calls' = CountEscape
    /\ tokenstart' = -1
    /\ i' = i + 1
    /\ pc' = "loop"
    /\ UNCHANGED <<inputs, iarg, j, arg, argbuf, outputSize, heap, returned, used>>

\* the write does not fit and the chunk is at the ceiling: it is kept
AttemptGiveUp ==
    /\ pc = "write"
    /\ ~AttemptOk(AttemptResult)
    /\ outputSize >= MaxOutputSize
    /\ output' = SetChunk(output, <<Junk>>)
    /\ escape_calls' = CountEscape
    /\ tokenstart' = -1
    /\ i' = i + 1
    /\ pc' = "loop"
    /\ UNCHANGED <<inputs, iarg, j, arg, argbuf, outputSize, heap, returned, used>>

\* the write does not fit: the chunk is discarded and its size doubled
AttemptRetry ==
    /\ pc = "write"
    /\ ~AttemptOk(AttemptResult)
    /\ outputSize < MaxOutputSize
    /\ output' = SetChunk(MoveCurrentPos(output, 0 - outputSize), <<>>)
    /\ outputSize' = outputSize * 2
    /\ escape_calls' = CountEscape
    /\ pc' = "attempt"
    /\ UNCHANGED <<inputs, i, tokenstart, iarg, j, arg, argbuf, heap, returned, used>>

\* the end of the format string: the terminator is added and the pair returned
Terminate ==
    /\ pc = "loop"
    /\ At(fmt, i) = NUL
    /\ output' = Add(output, NUL)
    /\ heap' = ReserveHeap(output, 1)
    /\ res' = [Str |-> output'.Buffer, Len |-> output'.Pos - 1]
    /\ stored' = output'.Data
    /\ oob' = 0
    /\ pc' = "ret"
    /\ UNCHANGED <<inputs, locals, result, term, used, escape_calls>>

\* what a read of Str[0 .. Len] sees: a byte stored past the end of the
\* block is in memory the block does not own, and may have any value
Seen(clobbered) ==
    [k \in 1..Len(stored) |-> IF k \in clobbered THEN Unknown ELSE stored[k]]

PastEnd == (Len(stored) - oob + 1)..Len(stored)

\* fmt_buf hands the pair to its caller, who reads the string
ReturnBuf ==
    /\ pc = "ret"
    /\ entry = "fmt_buf"
    /\ \E clobbered \in SUBSET PastEnd :
          /\ result' = SubSeq(Seen(clobbered), 1, Len(stored) - 1)
          /\ term' = Seen(clobbered)[Len(stored)]
    /\ pc' = "done"
    /\ UNCHANGED <<inputs, locals, output, heap, res, stored, oob, used, escape_calls>>

\* the std::string overload copies the string and releases a heap block
ReturnString ==
    /\ pc = "ret"
    /\ entry = "fmt"
    /\ \E clobbered \in SUBSET PastEnd :
          /\ result' = SubSeq(Seen(clobbered), 1, Len(stored) - 1)
          /\ term' = Seen(clobbered)[Len(stored)]
    /\ heap' = IF res.Str # staticbuf
               THEN [heap EXCEPT !.live = heap.live \ {res.Str},
                                 !.deleted = Append(heap.deleted, res.Str)]
               ELSE heap
    /\ pc' = "done"
    /\ UNCHANGED <<inputs, locals, output, res, stored, oob, used, escape_calls>>

Next ==
    \/ ZeroArgsStatic
    \/ ZeroArgsAlloc
    \/ Begin
    \/ ScanLiteral
    \/ DirectiveChar
    \/ Percent
    \/ PassthroughBegin
    \/ PassthroughAdd
    \/ SubstituteBegin
    \/ AttemptReserve
    \/ AttemptSuccess
    \/ AttemptGiveUp
    \/ AttemptRetry
    \/ Terminate
    \/ ReturnBuf
    \/ ReturnString

Spec == Init /\ [][Next]_vars

\* the call is one sequential computation: it keeps running while it can
FairSpec == ShortInit /\ [][Next]_vars /\ WF_vars(Next)

(***************************************************************************)
(* The conversion of one argument, taken on its own: the directive's text  *)
(* before its letter, the argument and the size of the provisional chunk   *)
(* are drawn, and the conversion is made once under each of two letters.   *)
(***************************************************************************)
\* 16-bit limbs at and around the ends of the signed and unsigned ranges
LimbSamples == {0, 9, 10, 32767, 32768, 65535}

IntValues(n) == [1..n -> LimbSamples]

\* the directive up to its letter: bare, with a width, with a length modifier
Prefixes == {<<"%">>, <<"%", "5">>, <<"%", "l">>}

\* chunk sizes below, at and above the least sizes of the fast paths
ChunkSizes == {0, 1, 2, 4, 8, 11, 16, 20, 64}

RenderArgs ==
    {ArgI32(v) : v \in {<<0, 0>>, <<65535, 65524>>, <<32768, 0>>, <<32767, 65535>>}}
    \cup {ArgU32(v) : v \in {<<0, 0>>, <<65535, 65535>>, <<32768, 0>>, <<0, 98>>}}
    \cup {ArgI64(v) : v \in {<<0, 0, 0, 0>>, <<65535, 65535, 65535, 65524>>, <<32768, 0, 0, 0>>}}
    \cup {ArgU64(v) : v \in {<<0, 0, 0, 0>>, <<65535, 65535, 65535, 65535>>, <<0, 1, 0, 0>>}}
    \cup {ArgDbl(v) : v \in {"25.5", "0"}}
    \cup {ArgCStr(v) : v \in {<<>>, <<"b">>, <<"a", "b", "c">>}}
    \cup {ArgPtr(v) : v \in {<<0, 0, 0, 0>>, <<0, 32767, 65535, 4096>>}}

\* the letter the usage names for the argument's tag
NaturalLetter(type) ==
    CASE type \in {"TI32", "TI64"} -> "d"
      [] type \in {"TU32", "TU64"} -> "u"
      [] type = "TDbl" -> "g"
      [] type = "TCStr" -> "s"
      [] type = "TPtr" -> "p"

\* the scanner substitutes a directive ending with the letter when an
\* argument remains and the directive is short
Substitutes(letter, cx) == letter \in ConversionLetters /\ ~disallowed(letter, cx)

RenderInit ==
    /\ Call("fmt_buf", <<>>, <<>>, EmptyContext, 0)
    /\ pin \in [arg : RenderArgs, prefix : Prefixes, outputSize : ChunkSizes]
    /\ pout = <<>>
    /\ NoCapture

\* the directive is converted under "v" and under the natural letter
Render ==
    /\ pc = "start"
    /\ pout' = [v |-> fmt_output_with_snprintf("v", pin.prefix, Len(pin.prefix),
                                               pin.outputSize, pin.arg),
                natural |-> fmt_output_with_snprintf(NaturalLetter(pin.arg.Type), pin.prefix,
                                                     Len(pin.prefix), pin.outputSize, pin.arg),
                sub_v |-> Substitutes("v", context),
                sub_natural |-> Substitutes(NaturalLetter(pin.arg.Type), context)]
    /\ pc' = "done"
    /\ UNCHANGED <<entry, fmt, args, context, staticbuf_size, pin, capture, locals, output, heap,
                   returned, used, escape_calls>>

RenderNext == Render

SpecRender == RenderInit /\ [][RenderNext]_vars

\* the integer conversion letters that have a fast path
FastLetters == {"d", "i", "u", "x", "X"}

\* a chunk large enough for every fast path
LargeChunk == 64

IntInit ==
    /\ Call("fmt_buf", <<>>, <<>>, EmptyContext, 0)
    /\ pin \in [arg : {ArgI32(v) : v \in IntValues(2)} \cup {ArgU32(v) : v \in IntValues(2)}
                      \cup {ArgI64(v) : v \in IntValues(4)} \cup {ArgU64(v) : v \in IntValues(4)},
                letter : FastLetters]
    /\ pout = <<>>
    /\ NoCapture

\* the integer is converted by the engine, which takes the fast path, and
\* by fmt_snprintf under the same conversion spec
FormatInt ==
    /\ pc = "start"
    /\ pout' = [fast |-> fmt_output_with_snprintf(pin.letter, <<"%">>, 1, LargeChunk, pin.arg),
                generic |-> fmt_snprintf(LargeChunk,
                                         ConversionSpec(pin.letter, <<"%">>, 1, pin.arg),
                                         pin.arg)]
    /\ pc' = "done"
    /\ UNCHANGED <<entry, fmt, args, context, staticbuf_size, pin, capture, locals, output, heap,
                   returned, used, escape_calls>>

IntNext == FormatInt

SpecInt == IntInit /\ [][IntNext]_vars

(***************************************************************************)
(* Calls drawn from other format characters, arguments and capacities,     *)
(* with an empty context.                                                  *)
(***************************************************************************)
CallsWith(chars, samples, caps, maxlen, maxargs) ==
    /\ \E e \in {"fmt", "fmt_buf"} :
       \E f \in Strings(chars, maxlen) :
       \E a \in Strings(samples, maxargs) :
       \E size \in (IF e = "fmt" THEN {bufsize} ELSE caps) :
          Call(e, f, a, EmptyContext, size)
    /\ pin = <<>>
    /\ pout = <<>>
    /\ NoCapture

\* a literal, the directive introducer, the write-back letter and a
\* conversion letter
WriteBackChars == {"b", "%", "n", "d"}

WriteBackInit == CallsWith(WriteBackChars, ArgSamples, 0..MaxCap, MaxFmtLen, MaxArgs)

SpecWriteBack == WriteBackInit /\ [][Next]_vars

\* calls with a caller buffer whose quarter is not a power of two
CeilingChars == {"b", "%", "d"}

CeilingCaps == {0, 12}

CeilingInit == CallsWith(CeilingChars, ArgSamples, CeilingCaps, MaxFmtLen, MaxArgs)

SpecCeiling == CeilingInit /\ [][Next]_vars

(***************************************************************************)
(* The scratch conversion spec of one directive, taken on its own: the     *)
(* directive is "%", a run of width digits, an optional last character and *)
(* the letter d, and there is one argument.                                *)
(***************************************************************************)
\* the longest run of width digits drawn
MaxSpecLen == 16

\* nothing, a length modifier, or a star the copy leaves out
LastChars == {<<>>, <<"l">>, <<"*">>}

Directives ==
    {<<"%">> \o Repeat("5", n) \o last \o <<"d">> : n \in 0..MaxSpecLen, last \in LastChars}

\* one argument of each tag
ScratchArgs ==
    {ArgNull, ArgPtr(<<0, 0, 0, 0>>), ArgCStr(<<"b">>), ArgWStr(<<"b">>),
     ArgI32(<<0, 9>>), ArgU32(<<0, 9>>), ArgI64(<<0, 0, 0, 9>>), ArgU64(<<0, 0, 0, 9>>),
     ArgDbl("0")}

\* the highest index of argbuf written for a substituted directive: the
\* copy writes 0 .. argbufsize - 1, and fmt_settype the rest of the spec and
\* the null after it
HighestIndex(fmt_type, buf, a) ==
    IF a.Type = "TNull" THEN Len(buf) - 1
    ELSE Max(Len(buf) - 1, Len(ConversionSpec(fmt_type, buf, Len(buf), a)))

ScratchInit ==
    /\ \E f \in Directives : \E a \in ScratchArgs :
          Call("fmt_buf", f, <<a>>, EmptyContext, bufsize)
    /\ pin = <<>>
    /\ pout = <<>>
    /\ NoCapture

\* the scan reaches the letter of the directive, decides whether it is
\* substituted and, if it is, builds the spec in argbuf
BuildSpec ==
    /\ pc = "start"
    /\ tokenstart' = 0
    /\ i' = Len(fmt) - 1
    /\ argbuf' = CopySpec(fmt, 0, Len(fmt) - 1)
    /\ pout' = [substituted |-> ~(\/ no_args_remaining(iarg, nargs)
                                  \/ spec_too_long(Len(fmt) - 1, 0)
                                  \/ disallowed(At(fmt, Len(fmt) - 1), context)),
                highest |-> HighestIndex(At(fmt, Len(fmt) - 1),
                                         CopySpec(fmt, 0, Len(fmt) - 1), args[1])]
    /\ pc' = "done"
    /\ UNCHANGED <<entry, fmt, args, context, staticbuf_size, pin, capture, iarg, j, arg,
                   outputSize, output, heap, returned, used, escape_calls>>

ScratchNext == BuildSpec

SpecScratch == ScratchInit /\ [][ScratchNext]_vars

(***************************************************************************)
(* The letter of the conversion, taken on its own: a bare directive with   *)
(* each letter that can be substituted, and one argument of each tag.      *)
(***************************************************************************)
\* the letters the scanner substitutes without a callback
RequestedLetters == {c \in ConversionLetters : ~disallowed(c, EmptyContext)}

LetterInit ==
    /\ Call("fmt_buf", <<>>, <<>>, EmptyContext, 0)
    /\ pin \in [arg : ScratchArgs, letter : RequestedLetters]
    /\ pout = <<>>
    /\ NoCapture

\* the conversion spec is built for the letter and the conversion made
ChooseLetter ==
    /\ pc = "start"
    /\ pout' = [spec |-> ConversionSpec(pin.letter, <<"%">>, 1, pin.arg),
                out |-> fmt_output_with_snprintf(pin.letter, <<"%">>, 1, LargeChunk, pin.arg)]
    /\ pc' = "done"
    /\ UNCHANGED <<entry, fmt, args, context, staticbuf_size, pin, capture, locals, output, heap,
                   returned, used, escape_calls>>

LetterNext == ChooseLetter

SpecLetter == LetterInit /\ [][LetterNext]_vars

(***************************************************************************)
(* The StackBuffer taken on its own: requests for n bytes and appends      *)
(* within the space that remains, from every small initial capacity.  pin  *)
(* keeps the buffer and the heap as they were before the last request.     *)
(***************************************************************************)
\* the largest request drawn
MaxRequest == 3

\* requests are drawn while the capacity is at most this
MaxGrown == 12

Requested(o, n) == [before |-> o, n |-> n, heap |-> heap]

BufferInit ==
    /\ \E size \in 0..MaxCap :
          /\ Call("fmt_buf", <<>>, <<>>, EmptyContext, size)
          /\ pin = [before |-> StackBuffer(staticbuf, size), n |-> 0, heap |-> NoHeap]
    /\ pout = <<>>
    /\ NoCapture

\* output.Reserve(n)
ReserveStep ==
    /\ output.Capacity <= MaxGrown
    /\ \E n \in 0..MaxRequest :
          /\ output' = Reserve(output, n)
          /\ heap' = ReserveHeap(output, n)
          /\ pin' = Requested(output, n)
    /\ UNCHANGED <<entry, fmt, args, context, staticbuf_size, pout, capture, pc, locals, returned,
                   used, escape_calls>>

\* output.AddUninitialized(n) within the remaining space, and the bytes
\* written to the chunk
AppendStep ==
    /\ \E n \in 1..RemainingSpace(output) :
          /\ output' = AddUninitialized(output, n, Repeat("b", n))
          /\ heap' = ReserveHeap(output, n)
          /\ pin' = Requested(output, n)
    /\ UNCHANGED <<entry, fmt, args, context, staticbuf_size, pout, capture, pc, locals, returned,
                   used, escape_calls>>

BufferNext ==
    \/ ReserveStep
    \/ AppendStep

SpecBuffer == BufferInit /\ [][BufferNext]_vars

(***************************************************************************)
(* WinDesktopDup: Initialize, CaptureNext, Close and the destructor, called *)
(* in any order on one object.  The capture service answers each request   *)
(* with success or failure as it chooses.                                  *)
(***************************************************************************)
\* the number of calls made on the object
MaxCalls == 5

\* the driver types Initialize tries in turn
numDriverTypes == 3

\* the sizes of the desktop texture
Sizes == {[Width |-> 1, Height |-> 1], [Width |-> 2, Height |-> 1]}

\* the variables of the formatter, which the object does not touch
formatter == <<entry, fmt, args, context, staticbuf_size, pin, pout, pc, locals, output,
               heap, returned, used, escape_calls>>

CaptureInit ==
    /\ Call("fmt_buf", <<>>, <<>>, EmptyContext, 0)
    /\ pin = <<>>
    /\ pout = <<>>
    /\ NoCapture

\* the object exists and the process runs
Callable == called.count < MaxCalls /\ ~called.crashed /\ called.last # "~WinDesktopDup"

\* the record of a call that returned
Returned(name, ret, service, textures) ==
    [count |-> called.count + 1, last |-> name, prev |-> called.last, ret |-> ret,
     service |-> service, textures |-> textures, crashed |-> FALSE]

\* the record of a call that ended the process
Crashed(name, service, textures) ==
    [count |-> called.count + 1, last |-> name, prev |-> called.last, ret |-> "",
     service |-> service, textures |-> textures, crashed |-> TRUE]

\* the steps of Initialize that can fail, in order, and the Error each returns
InitializeSteps ==
    <<"Failed to open desktop",
      "Failed to attach recording thread to desktop",
      "D3D11CreateDevice failed",
      "D3DDevice->QueryInterface failed",
      "dxgiDevice->GetParent failed",
      "dxgiAdapter->EnumOutputs failed",
      "dxgiOutput->QueryInterface failed",
      "DuplicateOutput failed">>

\* the references Initialize has obtained when it stops at step stop of call
\* self, and those it has released itself; stop past the last step is success
InitializeObtained(stop, self) ==
    (IF stop > 3 THEN <<Handle("device", self), Handle("context", self)>> ELSE <<>>)
    \o (IF stop > 4 THEN <<Handle("dxgiDevice", self)>> ELSE <<>>)
    \o (IF stop > 5 THEN <<Handle("dxgiAdapter", self)>> ELSE <<>>)
    \o (IF stop > 6 THEN <<Handle("dxgiOutput", self)>> ELSE <<>>)
    \o (IF stop > 7 THEN <<Handle("dxgiOutput1", self)>> ELSE <<>>)
    \o (IF stop > 8 THEN <<Handle("dupl", self)>> ELSE <<>>)

InitializeReleased(stop, self) ==
    (IF stop > 4 THEN <<Handle("dxgiDevice", self)>> ELSE <<>>)
    \o (IF stop > 5 THEN <<Handle("dxgiAdapter", self)>> ELSE <<>>)
    \o (IF stop > 6 THEN <<Handle("dxgiOutput", self)>> ELSE <<>>)
    \o (IF stop > 7 THEN <<Handle("dxgiOutput1", self)>> ELSE <<>>)

\* what a creating function leaves in its out parameter: the new reference
\* when it succeeds; when it fails, the old value or null
OutParam(old, created, new, kept) ==
    IF created THEN new ELSE IF kept THEN old ELSE nullptr

\* Initialize(): stops at the first step that fails.  The handles are
\* overwritten by D3D11CreateDevice and DuplicateOutput whatever they held,
\* and HaveFrameLock is not touched.
Initialize ==
    /\ Callable
    /\ \E stop \in 1..(Len(InitializeSteps) + 1) :
       \E driver \in 1..numDriverTypes :
       \E kept \in BOOLEAN :
          /\ D3DDevice' = IF stop < 3 THEN D3DDevice
                          ELSE OutParam(D3DDevice, stop > 3,
                                        Handle("device", called.count + 1), kept)
          /\ D3DDeviceContext' = IF stop < 3 THEN D3DDeviceContext
                                 ELSE OutParam(D3DDeviceContext, stop > 3,
                                               Handle("context", called.count + 1), kept)
          /\ DeskDupl' = IF stop < 8 THEN DeskDupl
                         ELSE OutParam(DeskDupl, stop > 8,
                                       Handle("dupl", called.count + 1), kept)
          /\ references' =
                [obtained |-> references.obtained
                                 \o InitializeObtained(stop, called.count + 1),
                 released |-> references.released
                                 \o InitializeReleased(stop, called.count + 1)]
          /\ called' = Returned("Initialize",
                                IF stop > Len(InitializeSteps) THEN ""
                                ELSE InitializeSteps[stop],
                                <<>>, <<>>)
    /\ UNCHANGED <<HaveFrameLock, Latest, frames, formatter>>

\* the Release calls of Close, in order
CloseReleased ==
    (IF DeskDupl # nullptr THEN <<DeskDupl>> ELSE <<>>)
    \o (IF D3DDeviceContext # nullptr THEN <<D3DDeviceContext>> ELSE <<>>)
    \o (IF D3DDevice # nullptr THEN <<D3DDevice>> ELSE <<>>)

\* the fields and the service after Close(); a duplication object that is
\* released takes its frame with it
Closing(name) ==
    /\ references' = [references EXCEPT !.released = @ \o CloseReleased]
    /\ frames' = IF DeskDupl # nullptr THEN frames \ {DeskDupl} ELSE frames
    /\ DeskDupl' = nullptr
    /\ D3DDeviceContext' = nullptr
    /\ D3DDevice' = nullptr
    /\ HaveFrameLock' = FALSE
    /\ called' = Returned(name, "", <<>>, <<>>)
    /\ UNCHANGED <<Latest, formatter>>

\* Close()
Close ==
    /\ Callable
    /\ Closing("Close")

\* ~WinDesktopDup(): Close(), and no call follows
Destroy ==
    /\ ~called.crashed
    /\ called.last # "~WinDesktopDup"
    /\ Closing("~WinDesktopDup")

\* a request to the capture service on a duplication object, with whether a
\* frame acquired from that object is held when the request is made
Request(op, on, held) == [op |-> op, on |-> on, held |-> held]

\* an operation on a texture
Operation(op, on) == [op |-> op, on |-> on]

\* CaptureNext() when DeskDupl is null: returns false at once
CaptureNext_Closed ==
    /\ Callable
    /\ DeskDupl = nullptr
    /\ called' = Returned("CaptureNext", "false", <<>>, <<>>)
    /\ UNCHANGED <<D3DDevice, D3DDeviceContext, DeskDupl, HaveFrameLock, Latest,
                   references, frames, formatter>>

\* the requests of CaptureNext: ReleaseFrame if HaveFrameLock, and then
\* AcquireNextFrame
FrameRequests ==
    (IF HaveFrameLock THEN <<Request("ReleaseFrame", DeskDupl, DeskDupl \in frames)>>
     ELSE <<>>)
    \o <<Request("AcquireNextFrame", DeskDupl,
                 DeskDupl \in frames /\ ~HaveFrameLock)>>

\* CaptureNext() when AcquireNextFrame times out or fails; the service
\* refuses to acquire while a frame is held
CaptureNext_NoFrame ==
    /\ Callable
    /\ DeskDupl # nullptr
    /\ HaveFrameLock' = FALSE
    /\ frames' = IF HaveFrameLock THEN frames \ {DeskDupl} ELSE frames
    /\ called' = Returned("CaptureNext", "false", FrameRequests, <<>>)
    /\ UNCHANGED <<D3DDevice, D3DDeviceContext, DeskDupl, Latest, references, formatter>>

\* the service has no frame of DeskDupl out once ReleaseFrame was called
CanAcquire == DeskDupl # nullptr /\ (HaveFrameLock \/ DeskDupl \notin frames)

\* CaptureNext() when the frame is acquired and the query for the texture
\* interface fails: the frame stays held
CaptureNext_NoTexture ==
    /\ Callable
    /\ CanAcquire
    /\ HaveFrameLock' = TRUE
    /\ frames' = frames \cup {DeskDupl}
    /\ references' =
          [obtained |-> Append(references.obtained, Handle("deskRes", called.count + 1)),
           released |-> Append(references.released, Handle("deskRes", called.count + 1))]
    /\ called' = Returned("CaptureNext", "false", FrameRequests, <<>>)
    /\ UNCHANGED <<D3DDevice, D3DDeviceContext, DeskDupl, Latest, formatter>>

\* the operations of CaptureNext on the two textures up to Map: cpuTex is
\* null when CreateTexture2D failed, and is mapped all the same
UpToMap(gpuTex, cpuTex) ==
    <<Operation("GetDesc", gpuTex)>>
    \o (IF cpuTex # nullptr THEN <<Operation("CopyResource", cpuTex)>> ELSE <<>>)
    \o <<Operation("Map", cpuTex)>>

\* and from there to the return: both textures are released, null or not
AfterMap(gpuTex, cpuTex, mapped) ==
    (IF mapped THEN <<Operation("Unmap", cpuTex)>> ELSE <<>>)
    \o <<Operation("Release", cpuTex), Operation("Release", gpuTex)>>

\* the operations made when the process ends in the named call
Before(crash, gpuTex) ==
    IF crash = "CreateTexture2D" THEN <<Operation("GetDesc", gpuTex)>>
    ELSE IF crash = "Map" THEN UpToMap(gpuTex, nullptr)
    ELSE UpToMap(gpuTex, nullptr) \o <<Operation("Release", nullptr)>>

\* CaptureNext() when the frame is acquired and its texture obtained.  A
\* call through a null device, Map of a null cpuTex and Release of a null
\* cpuTex are undefined: the process ends in that call, or the call fails
\* and changes nothing.
CaptureNext_Texture ==
    /\ Callable
    /\ CanAcquire
    /\ HaveFrameLock' = TRUE
    /\ frames' = frames \cup {DeskDupl}
    /\ \E create, map \in BOOLEAN :
       \E crash \in {"", "CreateTexture2D", "Map", "Release"} :
       \E desc \in Sizes :
          /\ D3DDevice = nullptr => ~create
          /\ ~create => ~map
          /\ create => crash = ""
          /\ crash = "CreateTexture2D" => D3DDevice = nullptr
          /\ Latest' = IF map THEN desc ELSE Latest
          /\ references' =
                [obtained |-> references.obtained
                                 \o <<Handle("deskRes", called.count + 1),
                                      Handle("gpuTex", called.count + 1)>>
                                 \o (IF create THEN <<Handle("cpuTex", called.count + 1)>>
                                     ELSE <<>>),
                 released |-> references.released
                                 \o <<Handle("deskRes", called.count + 1)>>
                                 \o (IF create THEN <<Handle("cpuTex", called.count + 1)>>
                                     ELSE <<>>)
                                 \o (IF crash = "" THEN <<Handle("gpuTex", called.count + 1)>>
                                     ELSE <<>>)]
          /\ called' =
                IF crash = ""
                THEN Returned("CaptureNext", IF create /\ map THEN "true" ELSE "false",
                              FrameRequests,
                              UpToMap(Handle("gpuTex", called.count + 1),
                                      IF create THEN Handle("cpuTex", called.count + 1)
                                      ELSE nullptr)
                              \o AfterMap(Handle("gpuTex", called.count + 1),
                                          IF create THEN Handle("cpuTex", called.count + 1)
                                          ELSE nullptr, map))
                ELSE Crashed("CaptureNext", FrameRequests,
                             Before(crash, Handle("gpuTex", called.count + 1)))
    /\ UNCHANGED <<D3DDevice, D3DDeviceContext, DeskDupl, formatter>>

\* CaptureNext()
CaptureNext ==
    \/ CaptureNext_Closed
    \/ CaptureNext_NoFrame
    \/ CaptureNext_NoTexture
    \/ CaptureNext_Texture

CaptureStep ==
    \/ Initialize
    \/ CaptureNext
    \/ Close
    \/ Destroy

SpecCapture == CaptureInit /\ [][CaptureStep]_vars

(***************************************************************************)
(* Measures of a finished call, used by the properties below.              *)
(***************************************************************************)
\* the size of the chunk the retry loop gives up with
RECURSIVE GiveUpSize(_)
GiveUpSize(size) == IF size >= MaxOutputSize THEN size ELSE GiveUpSize(size * 2)

\* the number of bytes an element of Data stands for
ElementSize(e) ==
    IF e = Junk THEN GiveUpSize(initial_sprintf_guessed_size(staticbuf_size))
    ELSE IF e = Uninit THEN outputSize
    ELSE 1

RECURSIVE ByteCount(_)
ByteCount(data) ==
    IF data = <<>> THEN 0 ELSE ElementSize(Head(data)) + ByteCount(Tail(data))

IsSuffix(t, seq) ==
    /\ Len(t) <= Len(seq)
    /\ SubSeq(seq, Len(seq) - Len(t) + 1, Len(seq)) = t

(***************************************************************************)
(* C1.  The pointer fmt_core returns is the caller's buffer exactly when   *)
(* the formatted string with its null terminator fits in the buffer        *)
(* (Len + 1 <= staticbuf_size), and then nothing was allocated; otherwise  *)
(* it is a newly allocated block, still live.                              *)
(***************************************************************************)
C1_StaticIffFits ==
    pc = "ret" =>
        /\ (res.Str = staticbuf) <=> (res.Len + 1 <= staticbuf_size)
        /\ res.Str = staticbuf => heap.blocks = <<>>
        /\ res.Str # staticbuf => res.Str \in heap.live

(***************************************************************************)
(* C2.  With no arguments, the string the caller reads equals the format   *)
(* string byte for byte, Len is the format string's length, and the        *)
(* storage is the caller's buffer or a live new block.                     *)
(***************************************************************************)
C2_ZeroArgsCopy ==
    (pc = "done" /\ entry = "fmt_buf" /\ nargs = 0) =>
        /\ result = fmt
        /\ res.Len = Len(fmt)
        /\ res.Str = staticbuf \/ res.Str \in heap.live

(***************************************************************************)
(* C3.  Every formatting call terminates.                                  *)
(***************************************************************************)
C3_Terminates == <>(pc = "done")

(***************************************************************************)
(* C4.  A directive cut off by the end of the format string has its raw    *)
(* characters, from the "%" on, copied to the output: they are the end of  *)
(* the string returned.                                                    *)
(***************************************************************************)
C4_CutOffCopied ==
    (pc = "done" /\ nargs # 0 /\ tokenstart # -1) =>
        IsSuffix(SubSeq(fmt, tokenstart + 1, Len(fmt)), result)

(***************************************************************************)
(* C5.  Pos <= Capacity holds in every state of the StackBuffer: after     *)
(* every Reserve, AddUninitialized, Add and MoveCurrentPos and after the   *)
(* unchecked literal copy.                                                 *)
(***************************************************************************)
C5_PosWithinCapacity == output.Pos <= output.Capacity

\* the buffer has grown more than once and is full
C5_Witness ==
    /\ Len(heap.blocks) >= 2
    /\ output.OwnBuffer
    /\ output.Pos = output.Capacity
    /\ output.Capacity > staticbuf_size

(***************************************************************************)
(* C6.  The k-th substituted directive renders the k-th argument: iarg     *)
(* starts at 0, never exceeds nargs, grows by one exactly when a directive *)
(* is substituted, and is left alone by a passed-through directive and by  *)
(* "%%".                                                                   *)
(***************************************************************************)
C6_ArgumentOrder ==
    /\ [](/\ iarg <= nargs
          /\ used = [k \in 1..iarg |-> k - 1]
          /\ pc \in {"attempt", "write"} => arg = iarg - 1)
    /\ [][\/ iarg' = iarg
          \/ /\ iarg' = iarg + 1
             /\ pc' = "attempt"
             /\ arg' = iarg]_vars
    /\ [][(pc' = "copy" \/ (pc = "loop" /\ tokenstart # -1 /\ At(fmt, i) = "%"))
            => iarg' = iarg]_vars

\* two directives have been substituted, from the first and the second argument
C6_Witness == pc = "done" /\ used = <<0, 1>> /\ iarg = nargs

(***************************************************************************)
(* C9.  The block returned holds a null byte at index Len, and Len is the  *)
(* number of formatted bytes before it.                                    *)
(***************************************************************************)
C9_NullAtLen ==
    pc = "ret" =>
        /\ res.Len < CapacityOf(res.Str)
        /\ oob = 0
        /\ stored[Len(stored)] = NUL
        /\ res.Len = ByteCount(stored) - 1

(***************************************************************************)
(* C10.  A q or Q directive whose callback is unset is copied to the       *)
(* output as it stands: no callback is called, no argument is taken, and   *)
(* fmt renders "%q" with one argument as "%q".                             *)
(***************************************************************************)
UnsetEscape ==
    \/ At(fmt, i) = "q" /\ ~context.Escape_q
    \/ At(fmt, i) = "Q" /\ ~context.Escape_Q

C10_UnsetEscapeLiteral ==
    /\ [](/\ "q" \in escape_calls => context.Escape_q
          /\ "Q" \in escape_calls => context.Escape_Q
          /\ (pc = "done" /\ entry = "fmt" /\ fmt = <<"%", "q">> /\ nargs = 1)
                => result = <<"%", "q">>)
    /\ [][(pc = "loop" /\ tokenstart # -1 /\ UnsetEscape)
            => (pc' = "copy" /\ iarg' = iarg /\ escape_calls' = escape_calls)]_vars
    /\ [][(pc = "copy" /\ pc' = "loop" /\ UnsetEscape)
            => /\ IsSuffix(SubSeq(fmt, tokenstart + 1, i + 1), output'.Data)
               /\ output'.Pos = output.Pos + 1
               /\ iarg' = iarg
               /\ escape_calls' = escape_calls
               /\ i' = i + 1]_vars

\* fmt has rendered "%q" with one argument
C10_Witness ==
    /\ pc = "done"
    /\ entry = "fmt"
    /\ fmt = <<"%", "q">>
    /\ nargs = 1
    /\ result = <<"%", "q">>

(***************************************************************************)
(* C7.  For every tag and value, the generic directive %v is converted to  *)
(* the same bytes, with the same value returned, as the tag's natural      *)
(* letter (d, u, g, s, p), whatever the chunk size, and the scanner        *)
(* substitutes both.                                                       *)
(***************************************************************************)
C7_GenericAsNatural ==
    pc = "done" =>
        /\ pout.v = pout.natural
        /\ pout.sub_v
        /\ pout.sub_natural

\* the largest unsigned 32-bit value has been converted under %v
C7_Witness ==
    /\ pc = "done"
    /\ pin.arg = ArgU32(<<65535, 65535>>)
    /\ pin.prefix = <<"%">>
    /\ pout.v = Wrote(<<"4", "2", "9", "4", "9", "6", "7", "2", "9", "5">>)

(***************************************************************************)
(* C8.  For every integer of each width and signedness, the fast integer   *)
(* formatter's decimal and hexadecimal text equals the generic backend's:  *)
(* the digits most significant first, one minus sign for a negative signed *)
(* value, no leading zeros, letters in the case asked for.                 *)
(***************************************************************************)
\* the value of a digit character of either case
DigitOf(c) == CHOOSE d \in 0..35 : DigitChars(FALSE)[d + 1] = c \/ DigitChars(TRUE)[d + 1] = c

\* the value the digits denote, in n limbs
RECURSIVE Denotes(_, _, _)
Denotes(digits, base, n) ==
    IF digits = <<>> THEN [k \in 1..n |-> 0]
    ELSE MulAddLimbs(Denotes(SubSeq(digits, 1, Len(digits) - 1), base, n), base,
                     DigitOf(digits[Len(digits)]))[1]

\* text is the canonical text of value under the letter
Canonical(text, letter, value) ==
    LET base == IF letter \in {"x", "X"} THEN 16 ELSE 10
        negative == letter \in {"d", "i"} /\ IsNegative(value)
        digits == IF negative THEN Tail(text) ELSE text
    IN /\ text # <<>>
       /\ negative <=> text[1] = "-"
       /\ digits # <<>>
       /\ \A k \in 1..Len(digits) :
            \E d \in 1..base : digits[k] = DigitChars(letter = "X")[d]
       /\ Len(digits) > 1 => digits[1] # "0"
       /\ Denotes(digits, base, Len(value)) = (IF negative THEN Negate(value) ELSE value)

C8_FastAsGeneric ==
    pc = "done" =>
        /\ pout.fast = pout.generic
        /\ pout.fast.written = Len(pout.fast.text)
        /\ Canonical(pout.fast.text, pin.letter, pin.arg.Bits)

\* the most negative 32-bit value has been converted in decimal
C8_Witness ==
    /\ pc = "done"
    /\ pin.arg = ArgI32(<<32768, 0>>)
    /\ pin.letter = "d"
    /\ pout.fast = Wrote(<<"-", "2", "1", "4", "7", "4", "8", "3", "6", "4", "8">>)

(***************************************************************************)
(* C11.  A directive ending in n is never substituted, whatever the pack:  *)
(* its raw text is copied to the output, no argument is taken, no write is *)
(* attempted for it and no conversion spec ending in n is handed to the    *)
(* platform, so nothing is written through an argument.                    *)
(***************************************************************************)
\* the letter of the conversion spec of the attempt in hand
AttemptLetter ==
    LET spec == ConversionSpec(At(fmt, i), argbuf, Len(argbuf), args[arg + 1])
    IN spec[Len(spec)]

C11_WriteBackRejected ==
    /\ [](/\ pc \in {"attempt", "write"} => (At(fmt, i) # "n" /\ AttemptLetter # "n")
          /\ (pc = "done" /\ entry = "fmt" /\ fmt = <<"%", "n">> /\ nargs = 1)
                => result = <<"%", "n">>)
    /\ [][args' = args]_vars
    /\ [][(pc = "loop" /\ tokenstart # -1 /\ At(fmt, i) = "n")
            => (pc' = "copy" /\ iarg' = iarg /\ used' = used)]_vars
    /\ [][(pc = "copy" /\ pc' = "loop" /\ At(fmt, i) = "n")
            => /\ IsSuffix(SubSeq(fmt, tokenstart + 1, i + 1), output'.Data)
               /\ iarg' = iarg
               /\ used' = used
               /\ i' = i + 1]_vars

\* "%n%d" has been rendered with one argument: the n directive is copied
\* and the argument goes to the d directive
C11_Witness ==
    /\ pc = "done"
    /\ entry = "fmt"
    /\ fmt = <<"%", "n", "%", "d">>
    /\ nargs = 1
    /\ used = <<0>>
    /\ result = <<"%", "n", "-", "1", "2">>

(***************************************************************************)
(* C12.  A directive with a conversion letter that is reached when every   *)
(* argument has been taken is copied verbatim to the output: no argument   *)
(* slot is read, and the scan goes on with the character after it.         *)
(***************************************************************************)
C12_MissingArgument ==
    /\ [](/\ pc \in {"attempt", "write"} => arg < nargs
          /\ (pc = "done" /\ entry = "fmt" /\ fmt = <<"%", "d", "%", "d">>
              /\ args = <<ArgI32(<<65535, 65524>>)>>)
                => result = <<"-", "1", "2", "%", "d">>)
    /\ [][(pc = "loop" /\ tokenstart # -1 /\ At(fmt, i) \in ConversionLetters
           /\ iarg >= nargs)
            => (pc' = "copy" /\ j' = tokenstart /\ iarg' = iarg /\ used' = used)]_vars
    /\ [][(pc = "copy" /\ pc' = "loop" /\ iarg >= nargs)
            => /\ IsSuffix(SubSeq(fmt, tokenstart + 1, i + 1), output'.Data)
               /\ iarg' = iarg
               /\ used' = used
               /\ tokenstart' = -1
               /\ i' = i + 1]_vars

\* "%d%d" has been rendered with one argument
C12_Witness ==
    /\ pc = "done"
    /\ entry = "fmt"
    /\ fmt = <<"%", "d", "%", "d">>
    /\ args = <<ArgI32(<<65535, 65524>>)>>
    /\ used = <<0>>
    /\ result = <<"-", "1", "2", "%", "d">>

(***************************************************************************)
(* C13.  Whatever the argument count, each "%%" of the format string       *)
(* contributes exactly one "%" byte to the output and takes no argument.   *)
(***************************************************************************)
\* the format string holds literals and "%%" only
RECURSIVE OnlyEscapes(_)
OnlyEscapes(f) ==
    IF f = <<>> THEN TRUE
    ELSE IF f[1] # "%" THEN OnlyEscapes(Tail(f))
    ELSE Len(f) >= 2 /\ f[2] = "%" /\ OnlyEscapes(SubSeq(f, 3, Len(f)))

\* such a format string with one "%" for each "%%"
RECURSIVE Collapse(_)
Collapse(f) ==
    IF f = <<>> THEN <<>>
    ELSE IF f[1] # "%" THEN <<f[1]>> \o Collapse(Tail(f))
    ELSE <<"%">> \o Collapse(SubSeq(f, 3, Len(f)))

C13_PercentPercent ==
    (pc = "done" /\ oob = 0 /\ OnlyEscapes(fmt)) =>
        /\ result = Collapse(fmt)
        /\ res.Len = Len(Collapse(fmt))
        /\ iarg = 0

(***************************************************************************)
(* C14.  A format string without "%" that is scanned (there are arguments) *)
(* comes out byte for byte, once and in order, whatever the capacity and   *)
(* however often the buffer grows, and the cursor after the last literal   *)
(* is the length of the string.                                            *)
(***************************************************************************)
LiteralOnly == \A k \in 1..Len(fmt) : fmt[k] # "%"

C14_LiteralCopy ==
    (nargs # 0 /\ LiteralOnly) =>
        /\ (pc = "loop" /\ At(fmt, i) = NUL) => (output.Pos = Len(fmt) /\ output.Data = fmt)
        /\ pc = "loop" => (output.Pos = i /\ output.Data = SubSeq(fmt, 1, i))
        /\ pc = "done" => (result = fmt /\ res.Len = Len(fmt) /\ term = NUL)

\* four literals have been copied from a one-byte buffer that grew three times
C14_Witness ==
    /\ pc = "done"
    /\ nargs # 0
    /\ fmt = <<"b", "d", "q", "5">>
    /\ staticbuf_size = 1
    /\ Len(heap.blocks) = 3
    /\ result = fmt

(***************************************************************************)
(* C15.  Whatever the initial capacity, the provisional chunk reserved for *)
(* a directive is never larger than 1 MiB, on any attempt.                 *)
(***************************************************************************)
C15_ChunkCeiling == pc = "write" => outputSize <= MaxOutputSize

(***************************************************************************)
(* C16.  Every byte written into output storage lands below the capacity   *)
(* of that storage: the zero-argument copy stays inside the caller's       *)
(* buffer, the literal copy stays below Capacity, and a conversion writes  *)
(* no more bytes than the provisional chunk it was given.                  *)
(***************************************************************************)
C16_WritesInBounds ==
    /\ oob = 0
    /\ output.Pos <= output.Capacity
    /\ pc = "write" => AttemptResult.written <= outputSize
    /\ pc \in {"ret", "done"} => ByteCount(stored) <= CapacityOf(res.Str)

(***************************************************************************)
(* C17.  For every directive that passes the length check and is           *)
(* substituted, and every argument tag, building the scratch conversion    *)
(* spec writes only to indices 0 .. 15 of the 16-byte scratch array.       *)
(***************************************************************************)
C17_ScratchInBounds ==
    (pc = "done" /\ pout.substituted) => pout.highest <= argbuf_arraysize - 1

(***************************************************************************)
(* C18.  In the retry loop an attempt that reports w bytes, 0 <= w < the   *)
(* provisional size, leaves the cursor at its value before the directive   *)
(* plus w; an attempt that reports truncation below the ceiling restores   *)
(* the cursor to its value before the directive and doubles the size, so   *)
(* the bytes of a discarded attempt never appear in the output.            *)
(***************************************************************************)
NoProvisional(data) == \A k \in 1..Len(data) : data[k] # Uninit

\* the bytes appended before the provisional chunk
BeforeChunk == SubSeq(output.Data, 1, Len(output.Data) - 1)

C18_RetryFrame ==
    /\ [](pc \in {"loop", "copy", "attempt", "ret", "done"} => NoProvisional(output.Data))
    /\ [][(pc = "loop" /\ pc' = "attempt") => output' = output]_vars
    /\ [][pc = "attempt"
            => (pc' = "write" /\ output'.Pos = output.Pos + outputSize)]_vars
    /\ [][(pc = "write" /\ AttemptOk(AttemptResult))
            => /\ pc' = "loop"
               /\ output'.Pos = (output.Pos - outputSize) + AttemptResult.written
               /\ output'.Data = BeforeChunk \o AttemptResult.text]_vars
    /\ [][(pc = "write" /\ ~AttemptOk(AttemptResult) /\ outputSize < MaxOutputSize)
            => /\ pc' = "attempt"
               /\ output'.Pos = output.Pos - outputSize
               /\ output'.Data = BeforeChunk
               /\ outputSize' = 2 * outputSize]_vars

\* "b%d" has been rendered into a four-byte buffer: two attempts were
\* discarded and the third wrote three bytes after the literal
C18_Witness ==
    /\ pc = "loop"
    /\ fmt = <<"b", "%", "d">>
    /\ staticbuf_size = 4
    /\ i = 3
    /\ outputSize = 4
    /\ output.Pos = 4
    /\ output.Data = <<"b", "-", "1", "2">>

(***************************************************************************)
(* C19.  The letter a substituted directive is converted with is decided   *)
(* by the argument's tag: p for a pointer, s for a C string, the wide      *)
(* letter for a wide string; a signed 32-bit integer keeps c and d, i, o,  *)
(* u, x, X and else takes d; the unsigned integers keep d, i, o, u, x, X   *)
(* and else take u; a signed 64-bit integer keeps those and else takes d;  *)
(* a double keeps e, E, f, g, G, a, A and else takes g; a null argument    *)
(* gives zero bytes.                                                       *)
(***************************************************************************)
IntegerLetters == {"d", "i", "o", "u", "x", "X"}

RealLetters == {"e", "E", "f", "g", "G", "a", "A"}

StatedLetter(type, letter) ==
    CASE type = "TPtr" -> "p"
      [] type = "TCStr" -> "s"
      [] type = "TWStr" -> wcharType
      [] type = "TI32" -> IF letter \in IntegerLetters \cup {"c"} THEN letter ELSE "d"
      [] type \in {"TU32", "TU64"} -> IF letter \in IntegerLetters THEN letter ELSE "u"
      [] type = "TI64" -> IF letter \in IntegerLetters THEN letter ELSE "d"
      [] type = "TDbl" -> IF letter \in RealLetters THEN letter ELSE "g"

C19_LetterByTag ==
    pc = "done" =>
        IF pin.arg.Type = "TNull"
        THEN pout.out = Wrote(<<>>)
        ELSE /\ pout.spec[Len(pout.spec)] = StatedLetter(pin.arg.Type, pin.letter)
             /\ pout.spec[1] = "%"

\* a signed 32-bit integer has been asked for as a string and converted
\* with d
C19_Witness ==
    /\ pc = "done"
    /\ pin.arg = ArgI32(<<0, 9>>)
    /\ pin.letter = "s"
    /\ pout.spec = <<"%", "d">>
    /\ pout.out = Wrote(<<"9">>)

(***************************************************************************)
(* C20.  A request for n bytes that finds Pos + n > Capacity makes the     *)
(* capacity exactly max(2 * Capacity, Pos + n), keeps the first Pos bytes  *)
(* and Pos, and sets the ownership flag, which never reverts; a request    *)
(* that finds Pos + n <= Capacity leaves storage, capacity and flag alone. *)
(***************************************************************************)
\* the buffer after the last request, against the buffer before it
GrownAsStated(b, n) ==
    IF b.Pos + n > b.Capacity
    THEN /\ output.Capacity = (IF 2 * b.Capacity >= b.Pos + n THEN 2 * b.Capacity
                               ELSE b.Pos + n)
         /\ output.Data = b.Data
         /\ output.Pos = b.Pos
         /\ output.OwnBuffer
         /\ b.OwnBuffer => b.Buffer \notin heap.live
         /\ output.Buffer # b.Buffer
         /\ output.Buffer \in heap.live
         /\ heap.blocks[output.Buffer] = output.Capacity
    ELSE /\ output.Buffer = b.Buffer
         /\ output.Capacity = b.Capacity
         /\ output.OwnBuffer = b.OwnBuffer
         /\ SubSeq(output.Data, 1, Len(b.Data)) = b.Data
         /\ heap = pin.heap

C20_GrowthPolicy ==
    /\ [](GrownAsStated(pin.before, pin.n))
    /\ [][ReserveStep => output'.Pos = output.Pos /\ output'.Data = output.Data]_vars
    /\ [][output.OwnBuffer => output'.OwnBuffer]_vars

\* an owned buffer holding bytes has grown again, to twice its capacity
C20_Witness ==
    /\ pin.before.OwnBuffer
    /\ pin.before.Pos > 0
    /\ pin.before.Pos + pin.n > pin.before.Capacity
    /\ output.Capacity = 2 * pin.before.Capacity
    /\ output.Data = pin.before.Data
    /\ Len(heap.deleted) >= 1

(***************************************************************************)
(* C21.  At every point of a call at most one block allocated by the       *)
(* engine is live: a growth releases the old storage exactly when it was   *)
(* heap-owned, the caller's storage is never released, no block is         *)
(* released twice, and the string-returning wrapper releases the final     *)
(* block exactly when the result is not in its static buffer, so that no   *)
(* allocation outlives the call to it.                                     *)
(***************************************************************************)
Released == {heap.deleted[k] : k \in 1..Len(heap.deleted)}

C21_OneLiveBlock ==
    /\ [](/\ Cardinality(heap.live) <= 1
          /\ staticbuf \notin Released
          /\ Cardinality(Released) = Len(heap.deleted)
          /\ heap.live \cap Released = {}
          /\ heap.live \cup Released = 1..Len(heap.blocks)
          /\ pc \in {"loop", "copy", "attempt", "write"}
                => heap.live = (IF output.OwnBuffer THEN {output.Buffer} ELSE {})
          /\ pc = "ret" => heap.live = (IF res.Str = staticbuf THEN {} ELSE {res.Str})
          /\ (pc = "done" /\ entry = "fmt") => heap.live = {}
          /\ (pc = "done" /\ entry = "fmt_buf")
                => heap.live = (IF res.Str = staticbuf THEN {} ELSE {res.Str}))
    /\ [][(pc # "start" /\ Len(heap'.blocks) > Len(heap.blocks))
            => heap'.deleted = (IF output.OwnBuffer THEN Append(heap.deleted, output.Buffer)
                                ELSE heap.deleted)]_vars
    /\ [][(pc = "ret" /\ entry = "fmt")
            => heap'.deleted = (IF res.Str = staticbuf THEN heap.deleted
                                ELSE Append(heap.deleted, res.Str))]_vars

\* the wrapper has returned after the buffer grew more than once: every
\* block has been released
C21_Witness ==
    /\ pc = "done"
    /\ entry = "fmt"
    /\ Len(heap.blocks) >= 2
    /\ heap.live = {}
    /\ Len(heap.deleted) = Len(heap.blocks)

\* AcquireNextFrame is requested on a duplication object holding no frame
AcquiresFree ==
    \A k \in 1..Len(called.service) :
        called.service[k].op = "AcquireNextFrame" => ~called.service[k].held

\* ReleaseFrame is requested on a duplication object holding a frame
ReleasesHeld ==
    \A k \in 1..Len(called.service) :
        called.service[k].op = "ReleaseFrame" => called.service[k].held

\* C22: in any sequence of Initialize, CaptureNext and Close calls on one
\* WinDesktopDup object, AcquireNextFrame is never requested on a duplication
\* object while a frame acquired from it is still held, and ReleaseFrame is
\* requested on a duplication object only when a frame acquired from that
\* same object is held.
C22_FrameLockProtocol == AcquiresFree /\ ReleasesHeld

\* the references obtained so far
Obtained == {references.obtained[k] : k \in 1..Len(references.obtained)}

\* C23: CaptureNext never invokes an operation on a null texture: every
\* texture it reads, copies to, maps, unmaps or releases is one it obtained,
\* and on every failure path (acquisition, the texture interface query, the
\* creation of the staging texture or the mapping fails) it returns false,
\* so that it returns true only with the staging texture created and mapped.
C23_NoNullTexture ==
    called.last = "CaptureNext" =>
        /\ \A k \in 1..Len(called.textures) :
              /\ called.textures[k].on # nullptr
              /\ called.textures[k].on \in Obtained
        /\ ~called.crashed
        /\ called.ret \in {"true", "false"}
        /\ called.ret = "true" =>
              /\ \E k \in 1..Len(called.textures) : called.textures[k].op = "CopyResource"
              /\ \E k \in 1..Len(called.textures) : called.textures[k].op = "Unmap"

\* the number of Release calls made on a reference
ReleaseCount(h) ==
    Cardinality({k \in 1..Len(references.released) : references.released[k] = h})

\* the device, device context and duplication references Initialize obtained
Kept == {h \in Obtained : h[1] \in {"device", "context", "dupl"}}

\* all three handles are null and the frame-lock flag is false
Closed ==
    /\ D3DDevice = nullptr
    /\ D3DDeviceContext = nullptr
    /\ DeskDupl = nullptr
    /\ ~HaveFrameLock

\* C24: when a sequence of Initialize, CaptureNext and Close calls on one
\* WinDesktopDup object ends with Close or with destruction, every device,
\* device context and duplication reference Initialize obtained has been
\* released exactly once, all three handles are null and the frame-lock
\* flag is false; and a CaptureNext that follows Close returns false without
\* a request to the capture service.
C24_ReleasedOnce ==
    /\ called.last \in {"Close", "~WinDesktopDup"} =>
          /\ \A h \in Kept : ReleaseCount(h) = 1
          /\ Closed
    /\ (called.last = "CaptureNext" /\ called.prev = "Close") =>
          /\ called.ret = "false"
          /\ called.service = <<>>
          /\ called.textures = <<>>
          /\ Closed

====
